---------------------------- MODULE Spec2Model ----------------------------
(***************************************************************************)
(* The document tree of the RST language server and the pipeline of        *)
(* docutils transforms that README.md documents ("Docutils Transforms"):   *)
(* a parsed tree, the transforms applied to it in default_priority order,  *)
(* and the editor-facing publication of the transformed tree.              *)
(*                                                                         *)
(* The tree is kept in document order (pre-order); every node carries the  *)
(* depth of its parent chain in "level", so the children of the node at i  *)
(* are the following nodes of level doc[i].level + 1, up to the first node *)
(* whose level is not greater than doc[i].level.                           *)
(***************************************************************************)
EXTENDS Integers, Sequences, FiniteSets, TLC

(***************************************************************************)
(* Bounds of the model.                                                    *)
(***************************************************************************)
MaxBlocks == 3
NumNames == 3
MaxVersion == 3
NumQueries == 1
MaxContent == 5
MaxItems == 3
MaxActivations == 4

(***************************************************************************)
(* Names, labels, uris and generated ids are strings, as the attribute     *)
(* values of the tree are.                                                 *)
(***************************************************************************)
NameTab == <<"a", "b", "c", "d", "e">>
UriTab == <<"http://a", "http://b", "http://c", "http://d", "http://e">>
IdTab == <<"id1", "id2", "id3", "id4", "id5", "id6", "id7", "id8", "id9",
           "id10", "id11", "id12", "id13", "id14", "id15", "id16">>
Names == 1..NumNames
Labels == {"footnote", "note"}
AnonUri == "http://external"

Range(s) == {s[i] : i \in 1..Len(s)}

RECURSIVE Ascending(_)
\* the numbers of the set S in ascending order
Ascending(S) ==
  IF S = {} THEN <<>>
  ELSE LET m == CHOOSE x \in S : \A y \in S : x <= y
       IN <<m>> \o Ascending(S \ {m})

\* the position of x in the sequence s (0 when absent)
IndexOf(s, x) ==
  IF \E i \in 1..Len(s) : s[i] = x
  THEN CHOOSE i \in 1..Len(s) : s[i] = x /\ \A j \in 1..(i - 1) : s[j] # x
  ELSE 0

(***************************************************************************)
(* Nodes.  ids, names and backrefs are ordered, as the doctree prints      *)
(* them; an absent refname / refid / refuri is the empty string.           *)
(***************************************************************************)
Node(kind) ==
  [kind |-> kind, level |-> 0, ids |-> <<>>, names |-> <<>>,
   refname |-> "", refid |-> "", refuri |-> "", anonymous |-> FALSE,
   auto |-> FALSE, backrefs |-> <<>>, label |-> 0, uri |-> "",
   content |-> <<>>]

Inline(n) == [n EXCEPT !.level = 1]

\* the blocks a document is written from; an inline node is the child of
\* the paragraph it follows
Para == <<Node("paragraph")>>
AnonRef == Inline([Node("reference") EXCEPT !.anonymous = TRUE])
ParaAnonRef == <<Node("paragraph"), AnonRef>>
ParaAnonRef2 == <<Node("paragraph"), AnonRef, AnonRef>>
ParaRef(n) ==
  <<Node("paragraph"), Inline([Node("reference") EXCEPT !.refname = NameTab[n]])>>
ParaFootRef(l) ==
  <<Node("paragraph"),
    Inline([Node("footnote_reference") EXCEPT !.auto = TRUE, !.refname = l])>>
ParaSubRef(n) ==
  <<Node("paragraph"),
    Inline([Node("substitution_reference") EXCEPT !.refname = NameTab[n]])>>
AnonInt == <<[Node("target") EXCEPT !.anonymous = TRUE]>>
AnonExt == <<[Node("target") EXCEPT !.anonymous = TRUE, !.refuri = AnonUri]>>
TInt(n) == <<[Node("target") EXCEPT !.names = <<NameTab[n]>>]>>
TExt(n) ==
  <<[Node("target") EXCEPT !.names = <<NameTab[n]>>, !.refuri = UriTab[n]]>>
TInd(n, m) ==
  <<[Node("target") EXCEPT !.names = <<NameTab[n]>>, !.refname = NameTab[m]]>>
Foot(l) ==
  <<[Node("footnote") EXCEPT !.auto = TRUE,
                             !.names = IF l = "" THEN <<>> ELSE <<l>>]>>
Image == [Node("image") EXCEPT !.uri = "biohazard.png"]
SubDef(n) ==
  <<[Node("substitution_definition") EXCEPT !.names = <<NameTab[n]>>,
                                            !.content = <<Image>>]>>
\* a citation reference, and the node the parser leaves for markup it
\* could not interpret
ParaCiteRef ==
  <<Node("paragraph"), Inline([Node("citation_reference") EXCEPT !.refname = "cit"])>>
ParaProblematic == <<Node("paragraph"), Inline(Node("problematic"))>>
Comment == <<Node("comment")>>
Transition == <<Node("transition")>>
FieldList == <<Node("field_list")>>
\* a section title line: d = 0 opens a top-level section, d = 1 a subsection
Section(d) == <<[Node("section") EXCEPT !.level = d]>>

SeqsUpTo(S, n) == UNION {[1..k -> S] : k \in 0..n}

(***************************************************************************)
(* The documents the model is run on: every sequence of at most MaxBlocks  *)
(* blocks of one of five vocabularies, and every layout of NumNames named  *)
(* targets that refer to each other.                                       *)
(***************************************************************************)
AnonBlocks == {ParaAnonRef, ParaAnonRef2, AnonInt, AnonExt, Para}
PropBlocks == {TInt(1), TInt(2), AnonInt, TExt(1), Para, ParaRef(1)}
FootBlocks == {ParaFootRef(""), ParaFootRef("footnote"), ParaFootRef("note"),
               Foot(""), Foot("footnote")}
StructBlocks == {Section(0), Section(1), Para, Transition, FieldList, Comment}
SubstBlocks == {ParaSubRef(1), ParaSubRef(2), SubDef(1), Para}

\* how a name is declared: not at all (0), as an internal target (-1), as
\* an external target (-2), or as an indirect target naming target m (m)
TargetForms == (-2)..NumNames
NamedTarget(n, form) ==
  IF form = 0 THEN <<>>
  ELSE IF form = -1 THEN <<TInt(n)>>
  ELSE IF form = -2 THEN <<TExt(n)>>
  ELSE <<TInd(n, form)>>
RECURSIVE ChainBlocks(_, _)
ChainBlocks(f, n) ==
  IF n > NumNames THEN <<>> ELSE NamedTarget(n, f[n]) \o ChainBlocks(f, n + 1)
ChainDocs ==
  {<<Para, ParaRef(NumNames)>> \o ChainBlocks(f, 1) : f \in [Names -> TargetForms]}

\* the documents of the examples of the README
ReadmeDocs ==
  {<<ParaSubRef(1), SubDef(1)>>,
   <<TInt(1), AnonInt, TInt(2), Para>>,
   <<ParaAnonRef2, AnonInt, AnonExt>>,
   <<ParaRef(2), TExt(1), TInd(2, 1)>>,
   <<TInt(1), ParaRef(3), TInd(2, 1), TInd(3, 2)>>,
   <<ParaFootRef("footnote"), ParaFootRef(""), Foot(""), Foot("footnote")>>,
   <<ParaRef(1), TExt(1)>>,
   <<ParaRef(1), TInt(1)>>,
   <<Section(0), Para, Transition, Section(0), Para>>}

\* documents with references that stay unresolved, targets that nothing
\* refers to, and problematic nodes
DanglingDocs ==
  {<<ParaProblematic, ParaRef(1), TInt(1), ParaRef(2), TInt(3)>>,
   <<ParaCiteRef, ParaFootRef("note"), TExt(1), ParaProblematic>>,
   <<ParaSubRef(2), SubDef(1), ParaProblematic, ParaRef(3)>>,
   <<ParaSubRef(1), SubDef(1), SubDef(2), ParaAnonRef, AnonInt>>}

Inputs ==
  SeqsUpTo(AnonBlocks, MaxBlocks) \cup SeqsUpTo(PropBlocks, MaxBlocks)
    \cup SeqsUpTo(FootBlocks, MaxBlocks) \cup SeqsUpTo(StructBlocks, MaxBlocks)
    \cup SeqsUpTo(SubstBlocks, MaxBlocks) \cup ChainDocs \cup ReadmeDocs
    \cup DanglingDocs

VARIABLES raw, doc, parsed, nameids, messages, phase, applied, run, lastStep,
          firstResult

\* the server: the text of every version of the document, the version the
\* running parse is of (0: none is running), the tree and index pair that is
\* published, and the queries
VARIABLES texts, jobVersion, published, queries

serverVars == <<texts, jobVersion, published, queries>>

\* the interpretation of roles: the items of a document (role directives and
\* interpreted text), how many of them are interpreted, the custom roles
\* registered so far, and what each interpreted item gave
VARIABLES items, pos, roles, out

roleVars == <<items, pos, roles, out>>

\* the editor extension: the rst_lsp.executable setting, the language clients
\* started, and context.subscriptions
VARIABLES executable, clients, subscriptions

extVars == <<executable, clients, subscriptions>>

vars == <<raw, doc, parsed, nameids, messages, phase, applied, run, lastStep,
          firstResult, texts, jobVersion, published, queries, items, pos,
          roles, out, executable, clients, subscriptions>>

(***************************************************************************)
(* Parsing: the blocks are laid out as a tree, and every node that can be  *)
(* referred to gets an id.                                                 *)
(***************************************************************************)
RECURSIVE Layout(_, _)
\* blocks: the blocks still to lay out; depth: the level of the content of
\* the innermost open section
Layout(blocks, depth) ==
  IF blocks = <<>> THEN <<>>
  ELSE LET b == Head(blocks)
       IN IF b[1].kind = "section"
          THEN LET l == IF b[1].level < depth THEN b[1].level ELSE depth
               IN <<[b[1] EXCEPT !.level = l]>> \o Layout(Tail(blocks), l + 1)
          ELSE [i \in 1..Len(b) |-> [b[i] EXCEPT !.level = depth + b[i].level]]
                 \o Layout(Tail(blocks), depth)

NeedsId(n) == n.kind \in {"target", "footnote", "footnote_reference"}

\* the ids of the nodes of d
IdsOf(d) == UNION {Range(d[i].ids) : i \in 1..Len(d)}

\* the first generated id (id1, id2, ...) no node of d carries
FreshId(d) ==
  IdTab[CHOOSE k \in 1..Len(IdTab) :
          /\ IdTab[k] \notin IdsOf(d)
          /\ \A j \in 1..(k - 1) : IdTab[j] \in IdsOf(d)]

\* the id the node n gets in the tree d of the nodes before it: its name,
\* unless a node before it has taken that id
NewId(d, n) ==
  IF n.names # <<>> /\ n.names[1] \notin IdsOf(d) THEN n.names[1]
  ELSE FreshId(d)

RECURSIVE AssignIds(_, _)
\* done: the nodes that have their ids; rest: the nodes after them
AssignIds(done, rest) ==
  IF rest = <<>> THEN done
  ELSE LET n == Head(rest)
           m == IF NeedsId(n) THEN [n EXCEPT !.ids = <<NewId(done, n)>>] ELSE n
       IN AssignIds(Append(done, m), Tail(rest))

\* the names a node of d declares
DeclaredNames(d) ==
  UNION {Range(d[i].names) : i \in {j \in 1..Len(d) : NeedsId(d[j])}}

\* Identifier Table: each declared name to the ids of the nodes declaring it
IdentifierTable(d) ==
  [nm \in DeclaredNames(d) |->
     {d[i].ids[1] : i \in {j \in 1..Len(d) : NeedsId(d[j]) /\ nm \in Range(d[j].names)}}]

Diagnostic(level, source, message, about) ==
  [level |-> level, source |-> source, message |-> message, about |-> about]

\* one diagnostic for every declaration of a name that is already declared
DuplicateNames(d) ==
  LET dup == Ascending({i \in 1..Len(d) :
                 /\ NeedsId(d[i]) /\ d[i].names # <<>>
                 /\ \E j \in 1..(i - 1) :
                      NeedsId(d[j]) /\ d[i].names[1] \in Range(d[j].names)})
  IN [k \in 1..Len(dup) |-> Diagnostic("WARNING", "Parser", "duplicate name", d[dup[k]].ids[1])]

(***************************************************************************)
(* Tree navigation.                                                        *)
(***************************************************************************)
\* the next sibling of the node at i (0 when it is its parent's last child)
NextSibling(d, i) ==
  LET after == {j \in (i + 1)..Len(d) : d[j].level <= d[i].level}
  IN IF after = {} THEN 0
     ELSE LET j == CHOOSE x \in after : \A y \in after : x <= y
          IN IF d[j].level = d[i].level THEN j ELSE 0

\* the first node of d carrying the id x (0 when none does)
NodeWithId(d, x) ==
  LET has == {i \in 1..Len(d) : x \in Range(d[i].ids)}
  IN IF has = {} THEN 0 ELSE CHOOSE i \in has : \A j \in has : i <= j

\* the indices, in document order, of the nodes of d of kind k
OfKind(d, k) == Ascending({i \in 1..Len(d) : d[i].kind = k})

(***************************************************************************)
(* transforms.references.Substitutions                                     *)
(***************************************************************************)
\* the first substitution definition of d, whatever its name
FirstDefinition(d, nm) ==
  LET defs == {i \in 1..Len(d) : d[i].kind = "substitution_definition"}
  IN IF defs = {} THEN 0 ELSE CHOOSE i \in defs : \A j \in defs : i <= j

\* the first substitution definition of d named nm (0 when there is none)
DefinitionOf(d, nm) ==
  LET defs == {i \in 1..Len(d) :
                 d[i].kind = "substitution_definition" /\ nm \in Range(d[i].names)}
  IN IF defs = {} THEN 0 ELSE CHOOSE i \in defs : \A j \in defs : i <= j

\* the copy of the children of the definition at def, as children of the
\* parent of a node of level l
CopiedContent(d, def, l) ==
  [k \in 1..Len(d[def].content) |-> [d[def].content[k] EXCEPT !.level = l]]

RECURSIVE SubstituteFrom(_, _)
SubstituteFrom(d, i) ==
  IF i > Len(d) THEN <<>>
  ELSE IF d[i].kind = "substitution_reference" /\ DefinitionOf(d, d[i].refname) # 0
       THEN CopiedContent(d, DefinitionOf(d, d[i].refname), d[i].level)
              \o SubstituteFrom(d, i + 1)
       ELSE <<d[i]>> \o SubstituteFrom(d, i + 1)

Substitutions(d) == SubstituteFrom(d, 1)

(***************************************************************************)
(* transforms.references.PropagateTargets                                  *)
(***************************************************************************)
\* a target that neither names a uri nor refers to another target
IsInternalTarget(n) ==
  n.kind = "target" /\ n.refuri = "" /\ n.refname = "" /\ n.refid = ""

\* a move that leaves the target its ids and names
CopyTarget(d, i, j) ==
  [d EXCEPT ![j].ids = d[j].ids \o d[i].ids,
            ![j].names = d[j].names \o d[i].names,
            ![i].refid = d[i].ids[1]]

\* the ids and names of the target at i, moved to the element at j
MoveTarget(d, i, j) ==
  [d EXCEPT ![j].ids = d[j].ids \o d[i].ids,
            ![j].names = d[j].names \o d[i].names,
            ![i].refid = d[i].ids[1],
            ![i].ids = <<>>,
            ![i].names = <<>>]

RECURSIVE PropagateFrom(_, _)
PropagateFrom(d, i) ==
  IF i > Len(d) THEN d
  ELSE IF IsInternalTarget(d[i]) /\ d[i].ids # <<>> /\ NextSibling(d, i) # 0
       THEN PropagateFrom(MoveTarget(d, i, NextSibling(d, i)), i + 1)
       ELSE PropagateFrom(d, i + 1)

PropagateTargets(d) == PropagateFrom(d, 1)

(***************************************************************************)
(* transforms.references.AnonymousHyperlinks                               *)
(***************************************************************************)
AnonymousRefs(d) ==
  Ascending({i \in 1..Len(d) : d[i].kind = "reference" /\ d[i].anonymous})
AnonymousTargets(d) ==
  Ascending({i \in 1..Len(d) : d[i].kind = "target" /\ d[i].anonymous})

\* the id a target declares: its own first id, or, once it is propagated,
\* the id its refid keeps
TargetId(n) == IF n.ids # <<>> THEN n.ids[1] ELSE n.refid

\* the reference r, resolved against the target t
LinkTo(r, t) ==
  IF t.refuri # "" THEN [r EXCEPT !.refuri = t.refuri, !.refid = ""]
  ELSE [r EXCEPT !.refid = TargetId(t), !.refuri = ""]

\* a pairing that counts the targets from the end of the document
PairedTargetReversed(d, k) ==
  d[AnonymousTargets(d)[Len(AnonymousTargets(d)) + 1 - k]]

\* the anonymous target the k-th anonymous reference is linked to
PairedTarget(d, k) == d[AnonymousTargets(d)[k]]

AnonymousHyperlinks(d) ==
  LET refs == AnonymousRefs(d)
  IN IF Len(refs) # Len(AnonymousTargets(d)) THEN d
     ELSE [i \in 1..Len(d) |->
             IF IndexOf(refs, i) # 0
             THEN LinkTo(d[i], PairedTarget(d, IndexOf(refs, i)))
             ELSE d[i]]

AnonymousMessages(d) ==
  IF Len(AnonymousRefs(d)) # Len(AnonymousTargets(d))
  THEN <<Diagnostic("ERROR", "AnonymousHyperlinks", "count mismatch", "")>>
  ELSE <<>>

(***************************************************************************)
(* transforms.references.IndirectHyperlinks                                *)
(***************************************************************************)
\* the id the name nm stands for in the Identifier Table ("" when the name
\* is not declared, or declared more than once)
IdOfName(nm) ==
  IF nm \in DOMAIN nameids /\ Cardinality(nameids[nm]) = 1
  THEN CHOOSE x \in nameids[nm] : TRUE
  ELSE ""

\* the node of d the name nm stands for (0 when there is none)
NodeOfName(d, nm) == IF IdOfName(nm) = "" THEN 0 ELSE NodeWithId(d, IdOfName(nm))

IsIndirectTarget(n) == n.kind = "target" /\ n.refname # ""

Resolution(how, value) == [how |-> how, value |-> value]

\* a resolution that stops at the target named, whatever that target is
ResolveOneHop(d, i, visiting) ==
  LET j == NodeOfName(d, d[i].refname)
  IN IF j = 0 THEN Resolution("nonexistent", "")
     ELSE IF d[j].refuri # "" THEN Resolution("refuri", d[j].refuri)
     ELSE Resolution("refid", IdOfName(d[i].refname))

RECURSIVE ResolveIndirect(_, _, _)
\* where the refname of the target at i leads; visiting: the targets whose
\* refname led to i
ResolveIndirect(d, i, visiting) ==
  LET j == NodeOfName(d, d[i].refname)
  IN IF j = 0 THEN Resolution("nonexistent", "")
     ELSE IF j \in visiting \cup {i} THEN Resolution("circular", "")
     ELSE IF IsIndirectTarget(d[j]) THEN ResolveIndirect(d, j, visiting \cup {i})
     ELSE IF d[j].refuri # "" THEN Resolution("refuri", d[j].refuri)
     ELSE Resolution("refid", IdOfName(d[i].refname))

\* the target t with its refname replaced by what it resolved to
Redirect(t, res) ==
  IF res.how = "refuri" THEN [t EXCEPT !.refuri = res.value, !.refname = ""]
  ELSE IF res.how = "refid" THEN [t EXCEPT !.refid = res.value, !.refname = ""]
  ELSE t

\* a reference that names an indirect target with an internal final target
RefersIndirectly(d, i) ==
  /\ d[i].kind = "reference" /\ d[i].refname # ""
  /\ NodeOfName(d, d[i].refname) # 0
  /\ IsIndirectTarget(d[NodeOfName(d, d[i].refname)])
  /\ ResolveIndirect(d, NodeOfName(d, d[i].refname), {}).how = "refid"

IndirectHyperlinks(d) ==
  [i \in 1..Len(d) |->
     IF IsIndirectTarget(d[i]) THEN Redirect(d[i], ResolveIndirect(d, i, {}))
     ELSE IF RefersIndirectly(d, i)
          THEN Redirect(d[i], ResolveIndirect(d, NodeOfName(d, d[i].refname), {}))
     ELSE d[i]]

IndirectMessages(d) ==
  LET bad == Ascending({i \in 1..Len(d) :
                 /\ IsIndirectTarget(d[i])
                 /\ ResolveIndirect(d, i, {}).how \in {"circular", "nonexistent"}})
  IN [k \in 1..Len(bad) |->
        Diagnostic("ERROR", "IndirectHyperlinks",
                   ResolveIndirect(d, bad[k], {}).how, d[bad[k]].ids[1])]

(***************************************************************************)
(* transforms.references.Footnotes                                         *)
(***************************************************************************)
AutoFootnotes(d) ==
  Ascending({i \in 1..Len(d) : d[i].kind = "footnote" /\ d[i].auto})
UnlabeledFootnotes(d) ==
  Ascending({i \in 1..Len(d) :
               d[i].kind = "footnote" /\ d[i].auto /\ d[i].names = <<>>})
UnlabeledFootnoteRefs(d) ==
  Ascending({i \in 1..Len(d) :
               d[i].kind = "footnote_reference" /\ d[i].auto /\ d[i].refname = ""})

\* the greatest number a footnote of d has
LastNumber(d) ==
  LET used == {d[i].label : i \in 1..Len(d)} \cup {0}
  IN CHOOSE m \in used : \A x \in used : x <= m

\* a footnote that has no number yet
Unnumbered(n) == n.kind = "footnote" /\ n.auto /\ n.label = 0

\* the number the footnote at i gets: the numbers follow the last number
\* in use, in the order of the unnumbered footnotes
FootnoteNumber(d, i) ==
  LastNumber(d) + Cardinality({j \in 1..i : Unnumbered(d[j])})

NumberFootnotes(d) ==
  [i \in 1..Len(d) |->
     IF Unnumbered(d[i]) THEN [d[i] EXCEPT !.label = FootnoteNumber(d, i)]
     ELSE d[i]]

\* every footnote reference, linked or not
AnyFootnoteRef(n) == n.kind = "footnote_reference"

\* a footnote reference that is not yet linked to a footnote
UnresolvedFootnoteRef(n) == n.kind = "footnote_reference" /\ n.refid = ""

\* a resolution that ignores the label of a reference
FootnoteByPosition(d, i) ==
  LET k == IndexOf(OfKind(d, "footnote_reference"), i)
  IN IF k <= Len(AutoFootnotes(d)) THEN AutoFootnotes(d)[k] ELSE 0

\* the footnote the reference at i refers to (0 when there is none): by
\* its label, or by its position among the unlabeled references
FootnoteFor(d, i) ==
  IF d[i].refname # ""
  THEN IF NodeOfName(d, d[i].refname) # 0
          /\ d[NodeOfName(d, d[i].refname)].kind = "footnote"
       THEN NodeOfName(d, d[i].refname) ELSE 0
  ELSE LET k == IndexOf(UnlabeledFootnoteRefs(d), i)
       IN IF k <= Len(UnlabeledFootnotes(d)) THEN UnlabeledFootnotes(d)[k] ELSE 0

\* a resolution that records no backref
NoBackrefs(d, f) == <<>>

\* the ids of the references of d that resolve to the footnote at f, in
\* document order
NewBackrefs(d, f) ==
  LET refs == Ascending({i \in 1..Len(d) :
                  UnresolvedFootnoteRef(d[i]) /\ FootnoteFor(d, i) = f})
  IN [k \in 1..Len(refs) |-> d[refs[k]].ids[1]]

ResolveFootnotes(d) ==
  [i \in 1..Len(d) |->
     IF UnresolvedFootnoteRef(d[i]) /\ FootnoteFor(d, i) # 0
     THEN [d[i] EXCEPT !.refid = d[FootnoteFor(d, i)].ids[1],
                       !.refname = "",
                       !.label = d[FootnoteFor(d, i)].label]
     ELSE IF d[i].kind = "footnote"
          THEN [d[i] EXCEPT !.backrefs = d[i].backrefs \o NewBackrefs(d, i)]
     ELSE d[i]]

Footnotes(d) == ResolveFootnotes(NumberFootnotes(d))

FootnoteMessages(d) ==
  LET bad == Ascending({i \in 1..Len(d) :
                 /\ UnresolvedFootnoteRef(d[i]) /\ d[i].refname = ""
                 /\ FootnoteFor(d, i) = 0})
  IN [k \in 1..Len(bad) |->
        Diagnostic("ERROR", "Footnotes", "too many references", d[bad[k]].ids[1])]

(***************************************************************************)
(* transforms.references.ExternalTargets / InternalTargets                 *)
(***************************************************************************)
NamesExternalTarget(d, n) ==
  /\ n.kind = "reference" /\ n.refname # ""
  /\ NodeOfName(d, n.refname) # 0
  /\ d[NodeOfName(d, n.refname)].kind = "target"
  /\ d[NodeOfName(d, n.refname)].refuri # ""

ExternalTargets(d) ==
  [i \in 1..Len(d) |->
     IF NamesExternalTarget(d, d[i])
     THEN [d[i] EXCEPT !.refuri = d[NodeOfName(d, d[i].refname)].refuri,
                       !.refname = ""]
     ELSE d[i]]

NamesInternalTarget(d, n) ==
  /\ n.kind = "reference" /\ n.refname # ""
  /\ NodeOfName(d, n.refname) # 0
  /\ d[NodeOfName(d, n.refname)].refuri = ""
  /\ d[NodeOfName(d, n.refname)].refname = ""

InternalTargets(d) ==
  [i \in 1..Len(d) |->
     IF NamesInternalTarget(d, d[i])
     THEN [d[i] EXCEPT !.refid = IdOfName(d[i].refname), !.refname = ""]
     ELSE d[i]]

(***************************************************************************)
(* transforms.frontmatter.DocTitle / DocInfo / SectionSubTitle             *)
(***************************************************************************)
\* the descendants of the node at i
Subtree(d, i) ==
  {j \in (i + 1)..Len(d) : \A k \in (i + 1)..j : d[k].level > d[i].level}

\* the node at i turned into a node of kind k, its children taking its place
\* among its siblings
Promote(d, i, k) ==
  [j \in 1..Len(d) |->
     IF j = i THEN [d[j] EXCEPT !.kind = k]
     ELSE IF j \in Subtree(d, i) THEN [d[j] EXCEPT !.level = d[j].level - 1]
     ELSE d[j]]

\* the first node of d from index i on that is none of the kinds skip, or 0;
\* a comment is no part of the structure of the document
FirstContent(d, i, skip) ==
  LET C == {j \in i..Len(d) : d[j].kind \notin skip}
  IN IF C = {} THEN 0 ELSE CHOOSE j \in C : \A k \in C : j <= k

DocTitle(d) ==
  LET i == FirstContent(d, 1, {"comment"})
  IN IF i # 0 /\ d[i].kind = "section" THEN Promote(d, i, "title") ELSE d

DocInfo(d) ==
  LET k == FirstContent(d, 1, {"comment", "title"})
  IN IF k # 0 /\ d[k].kind = "field_list" /\ d[k].level = 0
     THEN [d EXCEPT ![k].kind = "docinfo"]
     ELSE d

RECURSIVE SubTitleFrom(_, _)
SubTitleFrom(d, i) ==
  IF i >= Len(d) THEN d
  ELSE LET j == FirstContent(d, i + 1, {"comment"})
       IN IF /\ d[i].kind = "section" /\ j # 0 /\ d[j].kind = "section"
             /\ d[j].level = d[i].level + 1
          THEN SubTitleFrom(Promote(d, j, "subtitle"), i + 1)
          ELSE SubTitleFrom(d, i + 1)

SectionSubTitle(d) == SubTitleFrom(d, 1)

(***************************************************************************)
(* transforms.universal.StripComments / Decorations / ExposeInternals      *)
(***************************************************************************)
StripComments(d) ==
  LET keep == Ascending({i \in 1..Len(d) : d[i].kind # "comment"})
  IN [k \in 1..Len(keep) |-> d[keep[k]]]

\* no header or footer is configured, and no internal attribute is exposed
Decorations(d) == d
ExposeInternals(d) == d

(***************************************************************************)
(* transforms.misc.Transitions                                             *)
(***************************************************************************)
\* a transition that is the last child of a section
EndsSection(d, i) ==
  /\ d[i].kind = "transition" /\ d[i].level > 0
  /\ (i = Len(d) \/ d[i + 1].level < d[i].level)

\* the transition at i as a sibling after every section it ends
MovedUp(d, i) ==
  [d EXCEPT ![i].level = IF i = Len(d) THEN 0 ELSE d[i + 1].level]

RECURSIVE TransitionsFrom(_, _)
\* the last transition first: a transition may come to end a section when
\* the one after it has moved up
TransitionsFrom(d, i) ==
  IF i = 0 THEN d
  ELSE IF EndsSection(d, i) THEN TransitionsFrom(MovedUp(d, i), i - 1)
  ELSE TransitionsFrom(d, i - 1)

Transitions(d) == TransitionsFrom(d, Len(d))

\* what is wrong with the place of the transition at i ("" when nothing is)
Misplaced(d, i) ==
  IF i = 1 \/ (i = 2 /\ d[1].kind = "title") THEN "at the beginning of the document"
  ELSE IF d[i - 1].kind \in {"section", "title", "subtitle"} THEN "after a title"
  ELSE IF d[i - 1].kind = "transition" THEN "after another transition"
  ELSE IF i = Len(d) THEN "at the end of the document"
  ELSE ""

TransitionMessages(d) ==
  LET bad == Ascending({i \in 1..Len(d) :
                 d[i].kind = "transition" /\ Misplaced(d, i) # ""})
  IN [k \in 1..Len(bad) |->
        Diagnostic("ERROR", "Transitions", Misplaced(d, bad[k]), "")]

(***************************************************************************)
(* transforms.references.DanglingReferences                                *)
(***************************************************************************)
\* a reference, footnote reference or citation reference that no transform
\* has resolved
IsDangling(n) ==
  \/ n.kind = "reference" /\ n.refid = "" /\ n.refuri = ""
  \/ n.kind \in {"footnote_reference", "citation_reference"} /\ n.refid = ""

\* the names the document, as parsed, refers to
ReferencedNames ==
  {parsed[j].refname :
     j \in {x \in 1..Len(parsed) :
              /\ parsed[x].kind \in {"reference", "target", "substitution_reference"}
              /\ parsed[x].refname # ""}}

\* the declaration n of the parsed document is referred to: by its name, or,
\* when it is anonymous, by the anonymous reference it is paired with
IsReferenced(n) ==
  \/ Range(n.names) \cap ReferencedNames # {}
  \/ n.anonymous /\ Len(AnonymousRefs(parsed)) = Len(AnonymousTargets(parsed))

\* the node at i is a target or substitution definition that nothing refers
\* to; no transform removes or reorders these, so the node is the
\* declaration of the same rank in the parsed document
IsUnreferenced(d, i) ==
  /\ d[i].kind \in {"target", "substitution_definition"}
  /\ LET k == Cardinality({j \in 1..i : d[j].kind = d[i].kind})
         decls == OfKind(parsed, d[i].kind)
     IN k <= Len(decls) /\ ~IsReferenced(parsed[decls[k]])

\* the nodes DanglingReferences reports, in document order
DanglingFound(d) ==
  Ascending({i \in 1..Len(d) : IsDangling(d[i]) \/ IsUnreferenced(d, i)})

\* a report that is an error when it is about a reference
ErrorForReferences(n) == IF IsDangling(n) THEN "ERROR" ELSE "INFO"

\* reporter.info, whatever the node
DanglingLevel(n) == "INFO"

\* the transform reports, and leaves the tree as it is
DanglingReferences(d) == d

DanglingMessages(d) ==
  LET found == DanglingFound(d)
  IN [k \in 1..Len(found) |->
        Diagnostic(DanglingLevel(d[found[k]]), "DanglingReferences",
                   IF IsDangling(d[found[k]]) THEN "dangling reference"
                   ELSE "unreferenced target",
                   d[found[k]].refname)]

(***************************************************************************)
(* The pipeline: the standard transforms, applied in the order of their    *)
(* default_priority.                                                       *)
(***************************************************************************)
Transforms ==
  {"Substitutions", "PropagateTargets", "DocTitle", "DocInfo",
   "SectionSubTitle", "AnonymousHyperlinks", "IndirectHyperlinks",
   "Footnotes", "ExternalTargets", "InternalTargets", "StripComments",
   "Decorations", "Transitions", "ExposeInternals", "DanglingReferences"}

\* the priorities with DanglingReferences between StripComments and
\* Transitions
DanglingBeforeTransitions(t) ==
  CASE t = "Substitutions" -> 220
    [] t = "PropagateTargets" -> 260
    [] t = "DocTitle" -> 320
    [] t = "DocInfo" -> 340
    [] t = "SectionSubTitle" -> 350
    [] t = "AnonymousHyperlinks" -> 440
    [] t = "IndirectHyperlinks" -> 460
    [] t = "Footnotes" -> 620
    [] t = "ExternalTargets" -> 640
    [] t = "InternalTargets" -> 660
    [] t = "StripComments" -> 740
    [] t = "DanglingReferences" -> 750
    [] t = "Decorations" -> 820
    [] t = "Transitions" -> 830
    [] t = "ExposeInternals" -> 840

DefaultPriority(t) ==
  CASE t = "Substitutions" -> 220
    [] t = "PropagateTargets" -> 260
    [] t = "DocTitle" -> 320
    [] t = "DocInfo" -> 340
    [] t = "SectionSubTitle" -> 350
    [] t = "AnonymousHyperlinks" -> 440
    [] t = "IndirectHyperlinks" -> 460
    [] t = "Footnotes" -> 620
    [] t = "ExternalTargets" -> 640
    [] t = "InternalTargets" -> 660
    [] t = "StripComments" -> 740
    [] t = "Decorations" -> 820
    [] t = "Transitions" -> 830
    [] t = "ExposeInternals" -> 840
    [] t = "DanglingReferences" -> 850

\* the tree d after the transform t
TransformOf(t, d) ==
  CASE t = "Substitutions" -> Substitutions(d)
    [] t = "PropagateTargets" -> PropagateTargets(d)
    [] t = "DocTitle" -> DocTitle(d)
    [] t = "DocInfo" -> DocInfo(d)
    [] t = "SectionSubTitle" -> SectionSubTitle(d)
    [] t = "AnonymousHyperlinks" -> AnonymousHyperlinks(d)
    [] t = "IndirectHyperlinks" -> IndirectHyperlinks(d)
    [] t = "Footnotes" -> Footnotes(d)
    [] t = "ExternalTargets" -> ExternalTargets(d)
    [] t = "InternalTargets" -> InternalTargets(d)
    [] t = "StripComments" -> StripComments(d)
    [] t = "Decorations" -> Decorations(d)
    [] t = "Transitions" -> Transitions(d)
    [] t = "ExposeInternals" -> ExposeInternals(d)
    [] t = "DanglingReferences" -> DanglingReferences(d)

\* the diagnostics the transform t reports on the tree d
MessagesOf(t, d) ==
  CASE t = "AnonymousHyperlinks" -> AnonymousMessages(d)
    [] t = "IndirectHyperlinks" -> IndirectMessages(d)
    [] t = "Footnotes" -> FootnoteMessages(NumberFootnotes(d))
    [] t = "Transitions" -> TransitionMessages(Transitions(d))
    [] t = "DanglingReferences" -> DanglingMessages(d)
    [] OTHER -> <<>>

\* who reports diagnostics: the parser and the transforms.  messages keeps,
\* for each, the diagnostics of its latest application
Reporters == Transforms \cup {"Parser"}

\* the transforms of this run that are still to be applied
Pending == Transforms \ Range(applied)

\* the pending transform of the lowest priority number
NextTransform ==
  CHOOSE t \in Pending : \A u \in Pending : DefaultPriority(t) <= DefaultPriority(u)

\* the index the queries are answered from: where the node of each id is
QueryIndex(d) == [x \in IdsOf(d) |-> NodeWithId(d, x)]

\* the tree d of version v and its index, as one value
Snapshot(v, d) == [version |-> v, tree |-> d, index |-> QueryIndex(d)]

NoSnapshot == Snapshot(0, <<>>)
Queries == 1..NumQueries
IdleQuery == [pc |-> "idle", pin |-> NoSnapshot, tree |-> <<>>, index |-> <<>>]

\* no parse has started
NoParse ==
  /\ doc = <<>>
  /\ parsed = <<>>
  /\ nameids = <<>>
  /\ messages = [t \in Reporters |-> <<>>]
  /\ phase = "unparsed"
  /\ applied = <<>>
  /\ run = 0
  /\ lastStep = "none"
  /\ firstResult = <<>>

NoServer ==
  /\ texts = <<>>
  /\ jobVersion = 0
  /\ published = NoSnapshot
  /\ queries = [q \in Queries |-> IdleQuery]

NoRoles ==
  /\ items = <<>>
  /\ pos = 0
  /\ roles = <<>>
  /\ out = <<>>

NoExtension ==
  /\ executable = "undefined"
  /\ clients = <<>>
  /\ subscriptions = <<>>

Init ==
  /\ raw \in Inputs
  /\ NoParse
  /\ NoServer
  /\ NoRoles
  /\ NoExtension

Parse ==
  /\ phase = "unparsed"
  /\ LET d == AssignIds(<<>>, Layout(raw, 0))
     IN /\ doc' = d
        /\ parsed' = d
        /\ nameids' = IdentifierTable(d)
        /\ messages' = [messages EXCEPT !["Parser"] = DuplicateNames(d)]
  /\ phase' = "transforming"
  /\ run' = 1
  /\ lastStep' = "parse"
  /\ UNCHANGED <<raw, applied, firstResult>>
  /\ UNCHANGED <<serverVars, roleVars, extVars>>

\* the transform t, when it is the next of the pipeline
Apply(t) ==
  /\ phase = "transforming"
  /\ Pending # {}
  /\ NextTransform = t
  /\ doc' = TransformOf(t, doc)
  /\ messages' = [messages EXCEPT ![t] = MessagesOf(t, doc)]
  /\ applied' = Append(applied, t)
  /\ lastStep' = "transform"
  /\ phase' = IF Pending = {t} THEN "done" ELSE "transforming"
  /\ firstResult' = IF Pending = {t} /\ run = 1 THEN TransformOf(t, doc)
                    ELSE firstResult
  /\ UNCHANGED <<raw, parsed, nameids, run>>
  /\ UNCHANGED <<serverVars, roleVars, extVars>>

ApplySubstitutions == Apply("Substitutions")
ApplyPropagateTargets == Apply("PropagateTargets")
ApplyDocTitle == Apply("DocTitle")
ApplyDocInfo == Apply("DocInfo")
ApplySectionSubTitle == Apply("SectionSubTitle")
ApplyAnonymousHyperlinks == Apply("AnonymousHyperlinks")
ApplyIndirectHyperlinks == Apply("IndirectHyperlinks")
ApplyFootnotes == Apply("Footnotes")
ApplyExternalTargets == Apply("ExternalTargets")
ApplyInternalTargets == Apply("InternalTargets")
ApplyStripComments == Apply("StripComments")
ApplyDecorations == Apply("Decorations")
ApplyTransitions == Apply("Transitions")
ApplyExposeInternals == Apply("ExposeInternals")
ApplyDanglingReferences == Apply("DanglingReferences")

\* the transform applied last, applied once more to the tree as it left it
Rerun ==
  /\ lastStep = "transform"
  /\ run = 1
  /\ doc' = TransformOf(applied[Len(applied)], doc)
  /\ messages' = [messages EXCEPT ![applied[Len(applied)]] =
                                     MessagesOf(applied[Len(applied)], doc)]
  /\ lastStep' = "rerun"
  /\ UNCHANGED <<raw, parsed, nameids, phase, applied, run, firstResult>>
  /\ UNCHANGED <<serverVars, roleVars, extVars>>

\* the whole pipeline, run again on the transformed tree
RunAgain ==
  /\ phase = "done"
  /\ run = 1
  /\ run' = run + 1
  /\ applied' = <<>>
  /\ phase' = "transforming"
  /\ lastStep' = "again"
  /\ UNCHANGED <<raw, doc, parsed, nameids, messages, firstResult>>
  /\ UNCHANGED <<serverVars, roleVars, extVars>>

Next ==
  \/ Parse
  \/ ApplySubstitutions
  \/ ApplyPropagateTargets
  \/ ApplyDocTitle
  \/ ApplyDocInfo
  \/ ApplySectionSubTitle
  \/ ApplyAnonymousHyperlinks
  \/ ApplyIndirectHyperlinks
  \/ ApplyFootnotes
  \/ ApplyExternalTargets
  \/ ApplyInternalTargets
  \/ ApplyStripComments
  \/ ApplyDecorations
  \/ ApplyTransitions
  \/ ApplyExposeInternals
  \/ ApplyDanglingReferences
  \/ Rerun
  \/ RunAgain


Spec == Init /\ [][Next]_vars

(***************************************************************************)
(* The server: every edit makes a new version of the document; one parse   *)
(* and transform run at a time works on its own tree; a finished run       *)
(* publishes its tree and index; a query answers from the pair that was    *)
(* published when it started.                                              *)
(***************************************************************************)
\* the texts the document is edited to
ServerDocs ==
  {<<TInt(1), AnonInt, TInt(2), Para>>,
   <<ParaFootRef("footnote"), ParaFootRef(""), Foot(""), Foot("footnote")>>}

Version == Len(texts)

\* the run in progress is of a version that is no longer the latest
Cancelled == jobVersion # 0 /\ jobVersion # Version

\* a finished run that publishes whether or not an edit has arrived since
PublishWhenDone == jobVersion # 0 /\ phase = "done"

\* the run in progress is finished and still of the latest version
CanPublish == jobVersion # 0 /\ phase = "done" /\ jobVersion = Version

\* the index read from what is published now
PublishedIndex(q) == published.index

\* the index the query q reads: that of the pair it started with
PinnedIndex(q) == queries[q].pin.index

\* the tree the query q reads: that of the pair it started with
PinnedTree(q) == queries[q].pin.tree

ResetJob ==
  /\ raw' = <<>>
  /\ doc' = <<>>
  /\ parsed' = <<>>
  /\ nameids' = <<>>
  /\ messages' = [t \in Reporters |-> <<>>]
  /\ phase' = "unparsed"
  /\ applied' = <<>>
  /\ run' = 0
  /\ lastStep' = "none"
  /\ firstResult' = <<>>
  /\ jobVersion' = 0

Edit ==
  /\ Version < MaxVersion
  /\ \E t \in ServerDocs : texts' = Append(texts, t)
  /\ UNCHANGED <<raw, doc, parsed, nameids, messages, phase, applied, run,
                 lastStep, firstResult, jobVersion, published, queries>>
  /\ UNCHANGED <<roleVars, extVars>>

StartJob ==
  /\ jobVersion = 0
  /\ Version > published.version
  /\ jobVersion' = Version
  /\ raw' = texts[Version]
  /\ UNCHANGED <<doc, parsed, nameids, messages, phase, applied, run,
                 lastStep, firstResult, texts, published, queries>>
  /\ UNCHANGED <<roleVars, extVars>>

JobParse == jobVersion # 0 /\ ~Cancelled /\ Parse

JobTransform == jobVersion # 0 /\ ~Cancelled /\ \E t \in Transforms : Apply(t)

Abandon ==
  /\ Cancelled
  /\ ResetJob
  /\ UNCHANGED <<texts, published, queries>>
  /\ UNCHANGED <<roleVars, extVars>>

Publish ==
  /\ CanPublish
  /\ published' = Snapshot(jobVersion, doc)
  /\ ResetJob
  /\ UNCHANGED <<texts, queries>>
  /\ UNCHANGED <<roleVars, extVars>>

QueryStart(q) ==
  /\ queries[q].pc = "idle"
  /\ queries' = [queries EXCEPT ![q] = [IdleQuery EXCEPT !.pc = "started",
                                                         !.pin = published]]
  /\ UNCHANGED <<raw, doc, parsed, nameids, messages, phase, applied, run,
                 lastStep, firstResult, texts, jobVersion, published>>
  /\ UNCHANGED <<roleVars, extVars>>

QueryReadTree(q) ==
  /\ queries[q].pc = "started"
  /\ queries' = [queries EXCEPT ![q].pc = "tree", ![q].tree = PinnedTree(q)]
  /\ UNCHANGED <<raw, doc, parsed, nameids, messages, phase, applied, run,
                 lastStep, firstResult, texts, jobVersion, published>>
  /\ UNCHANGED <<roleVars, extVars>>

QueryReadIndex(q) ==
  /\ queries[q].pc = "tree"
  /\ queries' = [queries EXCEPT ![q].pc = "index", ![q].index = PinnedIndex(q)]
  /\ UNCHANGED <<raw, doc, parsed, nameids, messages, phase, applied, run,
                 lastStep, firstResult, texts, jobVersion, published>>
  /\ UNCHANGED <<roleVars, extVars>>

QueryFinish(q) ==
  /\ queries[q].pc = "index"
  /\ queries' = [queries EXCEPT ![q] = IdleQuery]
  /\ UNCHANGED <<raw, doc, parsed, nameids, messages, phase, applied, run,
                 lastStep, firstResult, texts, jobVersion, published>>
  /\ UNCHANGED <<roleVars, extVars>>

StartQuery == \E q \in Queries : QueryStart(q)
ReadTree == \E q \in Queries : QueryReadTree(q)
ReadIndex == \E q \in Queries : QueryReadIndex(q)
FinishQuery == \E q \in Queries : QueryFinish(q)

InitServer ==
  /\ raw = <<>>
  /\ NoParse
  /\ NoServer
  /\ NoRoles
  /\ NoExtension

NextServer ==
  \/ Edit
  \/ StartJob
  \/ JobParse
  \/ JobTransform
  \/ Abandon
  \/ Publish
  \/ StartQuery
  \/ ReadTree
  \/ ReadIndex
  \/ FinishQuery

SpecServer == InitServer /\ [][NextServer]_vars

(***************************************************************************)
(* Interpreted text and its roles (tests/test_docutils/inputs/              *)
(* test_interpreted.yaml).  A text is the sequence of its characters; a     *)
(* fixed piece of text, such as the base of a uri, is one element.          *)
(***************************************************************************)
PepMax == 9999
RfcMin == 1
PepBase == "http://www.python.org/dev/peps/pep-"
RfcBase == "http://tools.ietf.org/html/rfc"

Digits10 == <<"0", "1", "2", "3", "4", "5", "6", "7", "8", "9">>
IsDigit(c) == c \in Range(Digits10)
DigitValue(c) == IndexOf(Digits10, c) - 1

\* the text s is an integer: digits, after an optional minus sign
IsInteger(s) ==
  LET digits == IF s # <<>> /\ s[1] = "-" THEN Tail(s) ELSE s
  IN digits # <<>> /\ \A k \in 1..Len(digits) : IsDigit(digits[k])

RECURSIVE ToNatural(_)
ToNatural(s) ==
  IF s = <<>> THEN 0
  ELSE ToNatural(SubSeq(s, 1, Len(s) - 1)) * 10 + DigitValue(s[Len(s)])

ToInteger(s) == IF s[1] = "-" THEN 0 - ToNatural(Tail(s)) ELSE ToNatural(s)

RECURSIVE FormatNatural(_)
FormatNatural(n) ==
  IF n < 10 THEN <<Digits10[n + 1]>>
  ELSE FormatNatural(n \div 10) \o <<Digits10[(n % 10) + 1]>>

\* n in four digits at least: pep-%04d
ZeroPadded4(n) ==
  LET digits == FormatNatural(n)
  IN [k \in 1..(4 - Len(digits)) |-> "0"] \o digits

\* the items of a document: a role directive (.. role:: name(base), with
\* its :language: and :class: options) or an interpreted text, with the
\* role before it, after it, or neither
Item(kind) ==
  [item |-> kind, name |-> "", base |-> "", language |-> "", classes |-> <<>>,
   prefix |-> "", suffix |-> "", content |-> <<>>]

RoleDirective(name, base, language, classes) ==
  [Item("role") EXCEPT !.name = name, !.base = base, !.language = language,
                       !.classes = classes]

Interpreted(prefix, content, suffix) ==
  [Item("interpreted") EXCEPT !.prefix = prefix, !.content = content,
                              !.suffix = suffix]

\* the text as it is written, role markers and backquotes included (the
\* backquote character is written by name)
RoleMarker(r) == IF r = "" THEN <<>> ELSE <<":", r, ":">>
BackQuote == "(backquote)"
RawText(it) ==
  RoleMarker(it.prefix) \o <<BackQuote>> \o it.content \o <<BackQuote>>
    \o RoleMarker(it.suffix)

OutNode(kind) ==
  [kind |-> kind, text |-> <<>>, refuri |-> <<>>, classes |-> <<>>,
   ids |-> <<>>, refid |-> "", children |-> <<>>]

SystemMessage(level, message, ids, backrefs) ==
  [level |-> level, message |-> message, ids |-> ids, backrefs |-> backrefs]

\* what an item gives: the nodes in its place, and its system messages
Result(nodes, sysmsgs) == [nodes |-> nodes, messages |-> sysmsgs]

\* the k-th id that is free after the results o: every system message with
\* an id took two, one for itself and one for its problematic node
NextId(o, k) ==
  LET taken == {<<i, j>> \in (1..Len(o)) \X (1..2) :
                  j <= Len(o[i].messages) /\ o[i].messages[j].ids # <<>>}
  IN IdTab[2 * Cardinality(taken) + k]

\* the text of the item as a problematic node that refers to a system
\* message of the given level, which refers back to it
Problem(it, level, message, before, o) ==
  Result(<<[OutNode("problematic") EXCEPT !.text = RawText(it),
                                          !.ids = <<NextId(o, 2)>>,
                                          !.refid = NextId(o, 1)]>>,
         before \o <<SystemMessage(level, message, <<NextId(o, 1)>>,
                                   <<NextId(o, 2)>>)>>)

\* role names are looked up in lower case
LowerCase(r) ==
  CASE r = "PEP" -> "pep"
    [] r = "RFC" -> "rfc"
    [] OTHER -> r

\* the role names of the language module, and the canonical role of each
LanguageRoles ==
  {"title", "title-reference", "code", "pep", "pep-reference", "rfc",
   "rfc-reference", "emphasis", "strong", "literal"}

Canonical(r) ==
  CASE r = "title" -> "title-reference"
    [] r = "pep" -> "pep-reference"
    [] r = "rfc" -> "rfc-reference"
    [] OTHER -> r

Unimplemented == {"restructuredtext-unimplemented-role"}

\* the directive registered last, whatever the name asked for
AnyCustomRole(rs, r) == Len(rs)

\* the directive, among rs, that registered the role r last (0 when none did)
CustomRole(rs, r) ==
  LET regs == {k \in 1..Len(rs) : rs[k].name = r}
  IN IF regs = {} THEN 0 ELSE CHOOSE k \in regs : \A j \in regs : j <= k

\* the lexer's class of a character of code
TokenClass(c) ==
  IF IsDigit(c) THEN "literal number"
  ELSE IF c \in {"-", "#"} THEN "operator" ELSE "name"

\* code with a language is split in tokens; code without is kept as text
Tokenize(language, content) ==
  IF language = "" THEN <<[classes |-> <<>>, text |-> content]>>
  ELSE [k \in 1..Len(content) |->
          [classes |-> <<TokenClass(content[k])>>, text |-> <<content[k]>>]]

\* the classes of a role over code with the role's own classes first
OwnClassesFirst(opts) ==
  (IF opts.name = "" THEN <<>>
   ELSE IF opts.classes = <<>> THEN <<opts.name>> ELSE opts.classes)
    \o <<"code">>
    \o (IF opts.language = "" THEN <<>> ELSE <<opts.language>>)

\* the classes of a literal of the role code, or of a role over it: code,
\* the role's classes (its name when it declares none), the language
CodeClasses(opts) ==
  <<"code">>
    \o (IF opts.name = "" THEN <<>>
        ELSE IF opts.classes = <<>> THEN <<opts.name>> ELSE opts.classes)
    \o (IF opts.language = "" THEN <<>> ELSE <<opts.language>>)

CodeRole(opts, it) ==
  Result(<<[OutNode("literal") EXCEPT
              !.classes = CodeClasses(opts),
              !.children = Tokenize(opts.language, it.content)]>>, <<>>)

\* a PEP number of any size
PepUnchecked(t) == IsInteger(t) /\ ToInteger(t) >= 0

PepValid(t) == IsInteger(t) /\ ToInteger(t) >= 0 /\ ToInteger(t) <= PepMax

PepRole(it, o) ==
  IF PepValid(it.content)
  THEN Result(<<[OutNode("reference") EXCEPT
                   !.text = <<"PEP ">> \o it.content,
                   !.refuri = <<PepBase>> \o ZeroPadded4(ToInteger(it.content))]>>,
              <<>>)
  ELSE Problem(it, "ERROR", "PEP number must be a number from 0 to 9999",
               <<>>, o)

\* the number of an RFC reference, and its fragment ("#" included), which
\* is what follows the first "#" when anything does
RfcNumber(t) ==
  IF IndexOf(t, "#") = 0 THEN t ELSE SubSeq(t, 1, IndexOf(t, "#") - 1)
RfcFragment(t) ==
  IF IndexOf(t, "#") \in {0, Len(t)} THEN <<>>
  ELSE SubSeq(t, IndexOf(t, "#"), Len(t))

RfcValid(t) == IsInteger(RfcNumber(t)) /\ ToInteger(RfcNumber(t)) >= RfcMin

RfcRole(it, o) ==
  IF RfcValid(it.content)
  THEN Result(<<[OutNode("reference") EXCEPT
                   !.text = <<"RFC ">>
                              \o FormatNatural(ToInteger(RfcNumber(it.content))),
                   !.refuri = <<RfcBase>>
                                \o FormatNatural(ToInteger(RfcNumber(it.content)))
                                \o <<".html">> \o RfcFragment(it.content)]>>,
              <<>>)
  ELSE Problem(it, "ERROR",
               "RFC number must be a number greater than or equal to 1",
               <<>>, o)

\* the role base, with the options opts of its directive, applied to it
ApplyRole(base, opts, it, o) ==
  CASE base = "code" -> CodeRole(opts, it)
    [] base = "pep-reference" -> PepRole(it, o)
    [] base = "rfc-reference" -> RfcRole(it, o)
    [] OTHER -> Result(<<[OutNode(IF base = "title-reference"
                                  THEN "title_reference" ELSE base)
                            EXCEPT !.text = it.content]>>, <<>>)

\* the interpreted text it, with the roles rs registered before it, after
\* the results o
Interpret(it, rs, o) ==
  IF it.prefix # "" /\ it.suffix # ""
  THEN Problem(it, "WARNING", "Multiple roles in interpreted text", <<>>, o)
  ELSE LET r == LowerCase(IF it.prefix # "" THEN it.prefix ELSE it.suffix)
       IN IF r = "" THEN ApplyRole("title-reference", Item("role"), it, o)
          ELSE IF CustomRole(rs, r) # 0
          THEN ApplyRole(rs[CustomRole(rs, r)].base, rs[CustomRole(rs, r)], it, o)
          ELSE IF r \in LanguageRoles
          THEN ApplyRole(Canonical(r), Item("role"), it, o)
          ELSE Problem(it, "ERROR",
                       IF r \in Unimplemented
                       THEN "Interpreted text role not implemented"
                       ELSE "Unknown interpreted text role",
                       <<SystemMessage("INFO", "Trying as canonical role name",
                                       <<>>, <<>>)>>,
                       o)

\* the documents the roles are interpreted in: one PEP or RFC reference of
\* any content of at most MaxContent characters, and every sequence of at
\* most MaxItems items of the fixtures
NumberChars == {"0", "1", "9", "-", "#"}
RoleItems ==
  {RoleDirective("tex", "code", "latex", <<>>),
   RoleDirective("python", "code", "python", <<"testclass">>),
   RoleDirective("title", "code", "", <<>>),
   Interpreted("", <<"x">>, ""),
   Interpreted("title", <<"x">>, ""),
   Interpreted("", <<"x">>, "title"),
   Interpreted("code", <<"x">>, ""),
   Interpreted("tex", <<"x", "1">>, ""),
   Interpreted("python", <<"x", "-">>, ""),
   Interpreted("", <<"x">>, "python"),
   Interpreted("PEP", <<"-", "1">>, ""),
   Interpreted("role", <<"x">>, ""),
   Interpreted("", <<"x">>, "role"),
   Interpreted("role", <<"x">>, "role"),
   Interpreted("restructuredtext-unimplemented-role", <<"x">>, "")}
RoleInputs ==
  {<<Interpreted(r, c, "")>> : r \in {"PEP", "RFC"},
                               c \in SeqsUpTo(NumberChars, MaxContent)}
    \cup SeqsUpTo(RoleItems, MaxItems)

InitRoles ==
  /\ raw = <<>>
  /\ NoParse
  /\ NoServer
  /\ NoExtension
  /\ items \in RoleInputs
  /\ pos = 0
  /\ roles = <<>>
  /\ out = <<>>

RegisterRole ==
  /\ pos < Len(items)
  /\ items[pos + 1].item = "role"
  /\ roles' = Append(roles, items[pos + 1])
  /\ out' = Append(out, Result(<<>>, <<>>))
  /\ pos' = pos + 1
  /\ UNCHANGED <<raw, doc, parsed, nameids, messages, phase, applied, run,
                 lastStep, firstResult, serverVars, extVars, items>>

InterpretText ==
  /\ pos < Len(items)
  /\ items[pos + 1].item = "interpreted"
  /\ out' = Append(out, Interpret(items[pos + 1], roles, out))
  /\ pos' = pos + 1
  /\ UNCHANGED <<raw, doc, parsed, nameids, messages, phase, applied, run,
                 lastStep, firstResult, serverVars, extVars, items, roles>>

NextRoles ==
  \/ RegisterRole
  \/ InterpretText

SpecRoles == InitRoles /\ [][NextRoles]_vars

(***************************************************************************)
(* The editor extension (vscode-client/src/extension.ts).  The setting      *)
(* rst_lsp.executable is a string, or undefined; clients are the language   *)
(* clients started, in order, and subscriptions the disposables of the      *)
(* extension context, each the client it stops.                            *)
(***************************************************************************)
DefaultExecutable == "//anaconda/envs/rst-lsp/bin/rst-lsp-serve"
Executables == {DefaultExecutable, "rst-lsp-serve", "undefined"}

LanguageClient(name, transport, command, args, port, documentSelector, sections) ==
  [name |-> name, transport |-> transport, command |-> command, args |-> args,
   port |-> port, documentSelector |-> documentSelector,
   configurationSection |-> sections]

startLangServerTCP(addr, documentSelector) ==
  LanguageClient("tcp lang server", "tcp", "undefined", <<>>, addr,
                 documentSelector, <<>>)

\* the client of the line that activate leaves commented out
startLangServerOverTCP(command, args, documentSelector) ==
  startLangServerTCP(2088, <<"restructuredtext">>)

startLangServer(command, args, documentSelector) ==
  LanguageClient("RST Language Server", "stdio", command, args, 0,
                 documentSelector, <<"rst_lsp", "python">>)

\* the disposable that start() returns for the k-th client
Disposable(k) == [stops |-> k]

InitExtension ==
  /\ raw = <<>>
  /\ NoParse
  /\ NoServer
  /\ NoRoles
  /\ executable \in Executables
  /\ clients = <<>>
  /\ subscriptions = <<>>

activate ==
  /\ Len(clients) < MaxActivations
  /\ LET selector == <<[language |-> "restructuredtext", scheme |-> "file"]>>
     IN clients' = Append(clients, startLangServer(executable, <<"-vv">>, selector))
  /\ subscriptions' = Append(subscriptions, Disposable(Len(clients) + 1))
  /\ UNCHANGED <<raw, doc, parsed, nameids, messages, phase, applied, run,
                 lastStep, firstResult, serverVars, roleVars, executable>>

\* the user sets rst_lsp.executable, or removes it
ChangeExecutable ==
  /\ \E e \in Executables \ {executable} : executable' = e
  /\ UNCHANGED <<raw, doc, parsed, nameids, messages, phase, applied, run,
                 lastStep, firstResult, serverVars, roleVars, clients,
                 subscriptions>>

NextExtension ==
  \/ activate
  \/ ChangeExecutable

SpecExtension == InitExtension /\ [][NextExtension]_vars

(***************************************************************************)
(* What the claims are stated with.                                        *)
(***************************************************************************)
Done(t) == run > 1 \/ t \in Range(applied)
JustApplied(t) == applied' = Append(applied, t)
HasError(t, message) ==
  \E k \in 1..Len(messages[t]) :
    messages[t][k].level = "ERROR" /\ messages[t][k].message = message

\* the id the parser gave the one node declaring the name nm ("" when the
\* name is declared by no node, or by several)
DeclaredId(nm) ==
  LET decl == {i \in 1..Len(parsed) :
                 NeedsId(parsed[i]) /\ nm \in Range(parsed[i].names)}
  IN IF Cardinality(decl) = 1 THEN parsed[CHOOSE i \in decl : TRUE].ids[1] ELSE ""

\* the node of d that carries the name nm (0 when the name is not declared
\* exactly once)
Holder(d, nm) ==
  LET has == {i \in 1..Len(d) :
                nm \in Range(d[i].names) /\ d[i].kind # "substitution_definition"}
  IN IF DeclaredId(nm) # "" /\ has # {} THEN CHOOSE i \in has : TRUE ELSE 0

\* the node the refname of the indirect target at i names (0 when i is no
\* indirect target of d)
Hop(d, i) ==
  IF i = 0 THEN 0
  ELSE IF IsIndirectTarget(d[i]) THEN Holder(d, d[i].refname) ELSE 0

RECURSIVE Walk(_, _, _)
\* the node n hops from the node at i
Walk(d, i, n) == IF n = 0 THEN i ELSE Hop(d, Walk(d, i, n - 1))

\* the chain from i ends, after n hops, at a node that refers no further
EndsAfter(d, i, n) ==
  Walk(d, i, n) # 0 /\ ~IsIndirectTarget(d[Walk(d, i, n)])
OnCycle(d, i) == \E n \in 1..Len(d) : Walk(d, i, n) = i

(***************************************************************************)
(* C1: AnonymousHyperlinks links the N-th anonymous reference to the N-th  *)
(* anonymous target of the document: the reference gets the refuri of the  *)
(* target when it has one, and otherwise a refid that is the id of the     *)
(* target; when there are not as many references as targets, an ERROR is   *)
(* reported.                                                               *)
(***************************************************************************)
AnonymousPairedInOrder ==
  Done("AnonymousHyperlinks") =>
    LET refs == AnonymousRefs(doc)
        tgts == AnonymousTargets(parsed)
    IN IF Len(refs) = Len(tgts)
       THEN \A k \in 1..Len(refs) :
              IF parsed[tgts[k]].refuri # ""
              THEN doc[refs[k]].refuri = parsed[tgts[k]].refuri
                   /\ doc[refs[k]].refid = ""
              ELSE doc[refs[k]].refid = parsed[tgts[k]].ids[1]
                   /\ doc[refs[k]].refuri = ""
       ELSE HasError("AnonymousHyperlinks", "count mismatch")

\* the example of the README is reached: the first reference is linked by
\* refid, the second by refuri; and so is a document with a reference and
\* no target
AnonymousPairedWitness ==
  /\ Done("AnonymousHyperlinks")
  /\ Len(AnonymousRefs(doc)) = 2
  /\ Len(AnonymousTargets(parsed)) = 2
  /\ doc[AnonymousRefs(doc)[1]].refid = parsed[AnonymousTargets(parsed)[1]].ids[1]
  /\ doc[AnonymousRefs(doc)[2]].refuri = AnonUri
  /\ parsed[AnonymousTargets(parsed)[1]].refuri = ""

(***************************************************************************)
(* C2: IndirectHyperlinks follows a chain of refnames of any length: every *)
(* target of a chain that ends gets the refuri of the node the chain ends  *)
(* at, or a refid that is the id of that node, and loses its refname; a    *)
(* target on a cycle keeps its refname, gets neither refid nor refuri, and *)
(* an ERROR is reported.                                                   *)
(***************************************************************************)
IndirectPost(d, e) ==
  \A i \in 1..Len(d) : IsIndirectTarget(d[i]) =>
    /\ \A n \in 1..Len(d) : EndsAfter(d, i, n) =>
         LET t == Walk(d, i, n)
             last == d[Walk(d, i, n - 1)].refname
         IN /\ e[i].refname = ""
            /\ IF d[t].refuri # ""
               THEN e[i].refuri = d[t].refuri /\ e[i].refid = ""
               ELSE /\ e[i].refid = DeclaredId(last)
                    /\ e[i].refid \in Range(e[t].ids)
                    /\ e[i].refuri = ""
    /\ OnCycle(d, i) =>
         /\ e[i].refname = d[i].refname
         /\ e[i].refid = "" /\ e[i].refuri = ""
         /\ \E k \in 1..Len(messages'["IndirectHyperlinks"]) :
              /\ messages'["IndirectHyperlinks"][k].level = "ERROR"
              /\ messages'["IndirectHyperlinks"][k].message = "circular"
              /\ messages'["IndirectHyperlinks"][k].about = d[i].ids[1]

IndirectChainsResolved ==
  [][JustApplied("IndirectHyperlinks") => IndirectPost(doc, doc')]_vars

\* a chain of three targets that ends at a uri has been resolved
IndirectChainWitness ==
  /\ applied # <<>> /\ applied[Len(applied)] = "IndirectHyperlinks"
  /\ \E i \in 1..Len(parsed) :
       /\ IsIndirectTarget(parsed[i])
       /\ EndsAfter(parsed, i, 2)
       /\ parsed[Walk(parsed, i, 2)].refuri # ""
       /\ doc[i].refuri = parsed[Walk(parsed, i, 2)].refuri
       /\ doc[i].refname = ""

(***************************************************************************)
(* C3: Footnotes numbers the auto footnotes 1, 2, 3, ... in the order of   *)
(* their definitions, labeled or not, and a number never changes; a        *)
(* labeled reference is linked to the footnote of that label, the k-th     *)
(* unlabeled reference to the k-th unlabeled footnote, and the backrefs of *)
(* a footnote are the ids of the references linked to it.                  *)
(***************************************************************************)
\* the ids of the footnote references of d linked to the id x, in order
LinkedRefs(d, x) ==
  LET refs == Ascending({i \in 1..Len(d) :
                  d[i].kind = "footnote_reference" /\ d[i].refid = x})
  IN [k \in 1..Len(refs) |-> d[refs[k]].ids[1]]

FootnotesNumberedAndLinked ==
  Done("Footnotes") =>
    LET fs == AutoFootnotes(doc)
        unl == UnlabeledFootnotes(parsed)
        urefs == UnlabeledFootnoteRefs(parsed)
    IN /\ \A k \in 1..Len(fs) : doc[fs[k]].label = k
       /\ \A i \in 1..Len(parsed) :
            (parsed[i].kind = "footnote_reference" /\ parsed[i].refname # ""
               /\ DeclaredId(parsed[i].refname) # "")
            => doc[NodeWithId(doc, parsed[i].ids[1])].refid
                 = DeclaredId(parsed[i].refname)
       /\ \A k \in 1..Len(urefs) : k <= Len(unl) =>
            doc[NodeWithId(doc, parsed[urefs[k]].ids[1])].refid
              = parsed[unl[k]].ids[1]
       /\ \A k \in 1..Len(fs) :
            doc[fs[k]].backrefs = LinkedRefs(doc, doc[fs[k]].ids[1])

\* the example of the README is reached: the unlabeled footnote defined
\* first is 1, the labeled one defined second is 2, each with its backref
FootnotesWitness ==
  /\ Done("Footnotes")
  /\ Len(AutoFootnotes(doc)) >= 2
  /\ doc[AutoFootnotes(doc)[1]].names = <<>>
  /\ doc[AutoFootnotes(doc)[1]].label = 1
  /\ doc[AutoFootnotes(doc)[1]].backrefs # <<>>
  /\ doc[AutoFootnotes(doc)[2]].names # <<>>
  /\ doc[AutoFootnotes(doc)[2]].label = 2
  /\ doc[AutoFootnotes(doc)[2]].backrefs # <<>>

(***************************************************************************)
(* C4: PropagateTargets moves the ids and names of every empty internal    *)
(* target that a non-target element follows, directly or after further     *)
(* empty internal targets, onto that element: the target keeps no id and   *)
(* no name, its refid is the id it declared, and the ids of the element    *)
(* are its own and those of the targets of the chain.                      *)
(***************************************************************************)
IsEmptyTarget(n) == IsInternalTarget(n) /\ n.ids # <<>>

RECURSIVE Sibling(_, _, _)
\* the n-th sibling after the node at i (0 when there is none)
Sibling(d, i, n) ==
  IF n = 0 THEN i
  ELSE IF Sibling(d, i, n - 1) = 0 THEN 0
  ELSE NextSibling(d, Sibling(d, i, n - 1))

\* the n siblings from i on are empty internal targets, and the next is an
\* element that is no target
ChainOnto(d, i, n) ==
  /\ \A m \in 0..(n - 1) : Sibling(d, i, m) # 0 /\ IsEmptyTarget(d[Sibling(d, i, m)])
  /\ Sibling(d, i, n) # 0
  /\ d[Sibling(d, i, n)].kind # "target"

\* the empty internal target at i is the first of its chain
StartsChain(d, i) ==
  \A h \in 1..(i - 1) : ~(IsEmptyTarget(d[h]) /\ NextSibling(d, h) = i)

PropagatePost(d, e) ==
  \A i \in 1..Len(d) : \A n \in 1..Len(d) : ChainOnto(d, i, n) =>
    LET j == Sibling(d, i, n)
    IN /\ e[i].ids = <<>> /\ e[i].names = <<>>
       /\ e[i].refid = d[i].ids[1]
       /\ Range(d[i].ids) \subseteq Range(e[j].ids)
       /\ Range(d[i].names) \subseteq Range(e[j].names)
       /\ StartsChain(d, i) =>
            /\ Range(e[j].ids) = Range(d[j].ids)
                 \cup UNION {Range(d[Sibling(d, i, m)].ids) : m \in 0..(n - 1)}
            /\ Len(e[j].ids) = Cardinality(Range(e[j].ids))

TargetsPropagated ==
  [][JustApplied("PropagateTargets") => PropagatePost(doc, doc')]_vars

\* the example of the README is reached: two named targets and an anonymous
\* one between them are folded onto the paragraph after them
TargetsPropagatedWitness ==
  /\ Done("PropagateTargets")
  /\ \E j \in 1..Len(doc) :
       /\ doc[j].kind = "paragraph"
       /\ Len(doc[j].ids) >= 2
       /\ j > 2
       /\ doc[j - 1].kind = "target" /\ doc[j - 1].ids = <<>>
       /\ doc[j - 1].refid = doc[j].ids[1]
       /\ doc[j - 2].kind = "target" /\ doc[j - 2].ids = <<>>
       /\ doc[j - 2].refid = doc[j].ids[2]

(***************************************************************************)
(* C5: the pipeline is idempotent: a second run of the whole pipeline      *)
(* leaves the tree as the first run left it, and a transform applied again *)
(* right after itself leaves the tree unchanged.                           *)
(***************************************************************************)
PipelineIdempotent ==
  [][/\ lastStep' = "rerun" => doc' = doc
     /\ (phase' = "done" /\ run' > 1) => doc' = firstResult']_vars

\* a second run has ended, on a tree that the first run changed and that
\* has a footnote with a backref
PipelineIdempotentWitness ==
  /\ phase = "done" /\ run = 2
  /\ \E i \in 1..Len(doc) : doc[i].backrefs # <<>>
  /\ doc # parsed

(***************************************************************************)
(* C6 as claimed: when the pipeline is done, every resolved reference,     *)
(* whichever transform resolved it, has its id in the backrefs of the node *)
(* that carries its refid.                                                 *)
(***************************************************************************)
HasBackref(d, i) ==
  \E j \in 1..Len(d) :
    /\ d[i].refid \in Range(d[j].ids)
    /\ d[i].ids # <<>>
    /\ d[i].ids[1] \in Range(d[j].backrefs)

BackrefSymmetryForAll ==
  phase = "done" =>
    \A i \in 1..Len(doc) :
      (doc[i].kind \in {"reference", "footnote_reference"} /\ doc[i].refid # "")
        => HasBackref(doc, i)

(***************************************************************************)
(* C6 as amended: when the pipeline is done, every resolved footnote       *)
(* reference has its id in the backrefs of the footnote that carries its   *)
(* refid; a hyperlink reference has no id, and the node that carries its   *)
(* refid has no backref of it; and no step removes a backref.              *)
(***************************************************************************)
IsPrefix(s, t) == Len(s) <= Len(t) /\ \A k \in 1..Len(s) : s[k] = t[k]

BackrefSymmetryOfFootnotes ==
  [][/\ phase' = "done" =>
          \A i \in 1..Len(doc') :
            /\ (doc'[i].kind = "footnote_reference" /\ doc'[i].refid # "")
                 => HasBackref(doc', i)
            /\ (doc'[i].kind = "reference" /\ doc'[i].refid # "")
                 => /\ doc'[i].ids = <<>>
                    /\ NodeWithId(doc', doc'[i].refid) # 0
                    /\ doc'[NodeWithId(doc', doc'[i].refid)].backrefs = <<>>
     /\ \A x \in IdsOf(doc) \cap IdsOf(doc') :
          IsPrefix(doc[NodeWithId(doc, x)].backrefs,
                   doc'[NodeWithId(doc', x)].backrefs)]_vars

\* the pipeline is done on a tree with a footnote reference that is linked
\* to a footnote holding its backref
BackrefSymmetryWitness ==
  /\ phase = "done"
  /\ \E i \in 1..Len(doc) :
       doc[i].kind = "footnote_reference" /\ doc[i].refid # "" /\ HasBackref(doc, i)

(***************************************************************************)
(* C7: once the document is parsed, and so when the pipeline is done, no   *)
(* id is among the ids of two nodes, nor twice among the ids of one; each  *)
(* of two declarations of one name has an id of its own in the tree, and   *)
(* the second is reported.                                                 *)
(***************************************************************************)
IdsUnique ==
  phase # "unparsed" =>
    /\ \A i, j \in 1..Len(doc) :
         i # j => Range(doc[i].ids) \cap Range(doc[j].ids) = {}
    /\ \A i \in 1..Len(doc) : Len(doc[i].ids) = Cardinality(Range(doc[i].ids))
    /\ \A i, j \in 1..Len(parsed) :
         (/\ i < j /\ NeedsId(parsed[i]) /\ NeedsId(parsed[j])
          /\ Range(parsed[i].names) \cap Range(parsed[j].names) # {})
         => /\ parsed[i].ids[1] # parsed[j].ids[1]
            /\ NodeWithId(doc, parsed[i].ids[1]) # 0
            /\ NodeWithId(doc, parsed[j].ids[1]) # 0
            /\ \E k \in 1..Len(messages["Parser"]) :
                 messages["Parser"][k].about = parsed[j].ids[1]

\* the pipeline is done on a document that declares a name twice and has an
\* element that targets were propagated onto
IdsUniqueWitness ==
  /\ phase = "done"
  /\ messages["Parser"] # <<>>
  /\ \E i \in 1..Len(doc) : doc[i].kind = "paragraph" /\ Len(doc[i].ids) >= 2

(***************************************************************************)
(* C8: a query in flight keeps the pair it started with, whatever parses   *)
(* and publications happen meanwhile: the tree and the index it reads are  *)
(* those of that pair, and so of one parse; the published index is always  *)
(* the index of the published tree; and what is published changes only to  *)
(* the pair of a later version, never in place.                            *)
(***************************************************************************)
QueriesSeeOneSnapshot ==
  [][/\ \A q \in Queries :
          /\ (queries[q].pc # "idle" /\ queries'[q].pc # "idle")
               => queries'[q].pin = queries[q].pin
          /\ queries'[q].pc \in {"tree", "index"}
               => queries'[q].tree = queries'[q].pin.tree
          /\ queries'[q].pc = "index"
               => /\ queries'[q].index = queries'[q].pin.index
                  /\ queries'[q].index = QueryIndex(queries'[q].tree)
     /\ published'.index = QueryIndex(published'.tree)
     /\ published' # published => published'.version > published.version]_vars

\* a query has read the tree of the pair of version 1, a different pair of
\* version 2 is published since, and a parse is running
QueriesSeeOneSnapshotWitness ==
  \E q \in Queries :
    /\ queries[q].pc = "tree"
    /\ queries[q].pin.version = 1
    /\ published.version = 2
    /\ published.tree # queries[q].pin.tree
    /\ jobVersion # 0

(***************************************************************************)
(* C9: what is published changes only to the tree, with its index, of a    *)
(* run that has applied every transform to the text of the latest version: *)
(* a run that an edit has overtaken publishes nothing, no partly           *)
(* transformed tree is published, and no version older than the latest.    *)
(***************************************************************************)
ReparseCancels ==
  [][/\ published' # published
          => /\ phase = "done"
             /\ Pending = {}
             /\ jobVersion = Version
             /\ raw = texts[Version]
             /\ published' = Snapshot(Version, doc)
     /\ Cancelled => published' = published]_vars

\* the run of version 2 has applied some transforms when the edit to
\* version 3 arrives, version 1 being published
ReparseCancelsWitness ==
  /\ Cancelled
  /\ jobVersion = 2
  /\ phase = "transforming"
  /\ applied # <<>>
  /\ published.version = 1

(***************************************************************************)
(* C10 as claimed: the transforms run in the order Substitutions,          *)
(* PropagateTargets, DocTitle, DocInfo, SectionSubTitle,                   *)
(* AnonymousHyperlinks, IndirectHyperlinks, Footnotes, ExternalTargets,    *)
(* InternalTargets, StripComments, DanglingReferences, Transitions.        *)
(***************************************************************************)
\* the elements of s that are in S, in the order of s
Restricted(s, S) ==
  LET keep == Ascending({k \in 1..Len(s) : s[k] \in S})
  IN [k \in 1..Len(keep) |-> s[keep[k]]]

ClaimedOrder ==
  <<"Substitutions", "PropagateTargets", "DocTitle", "DocInfo",
    "SectionSubTitle", "AnonymousHyperlinks", "IndirectHyperlinks",
    "Footnotes", "ExternalTargets", "InternalTargets", "StripComments",
    "DanglingReferences", "Transitions">>

OrderAsClaimed == IsPrefix(Restricted(applied, Range(ClaimedOrder)), ClaimedOrder)

(***************************************************************************)
(* C10 as amended: the transforms run in the order Substitutions,          *)
(* PropagateTargets, DocTitle, DocInfo, SectionSubTitle,                   *)
(* AnonymousHyperlinks, IndirectHyperlinks, Footnotes, ExternalTargets,    *)
(* InternalTargets, StripComments, Decorations, Transitions,               *)
(* ExposeInternals, DanglingReferences: DanglingReferences runs last,      *)
(* after Transitions.                                                      *)
(***************************************************************************)
ReadmeOrder ==
  <<"Substitutions", "PropagateTargets", "DocTitle", "DocInfo",
    "SectionSubTitle", "AnonymousHyperlinks", "IndirectHyperlinks",
    "Footnotes", "ExternalTargets", "InternalTargets", "StripComments",
    "Decorations", "Transitions", "ExposeInternals", "DanglingReferences">>

OrderByPriority == IsPrefix(applied, ReadmeOrder)

\* a run in which Transitions has been applied and DanglingReferences is
\* still to come
OrderByPriorityWitness ==
  /\ "Transitions" \in Range(applied)
  /\ "DanglingReferences" \notin Range(applied)
  /\ phase = "transforming"

(***************************************************************************)
(* C11 as claimed: once DanglingReferences is applied, its diagnostics are *)
(* one for every unresolved reference, footnote reference and citation     *)
(* reference and one for every target or substitution definition with zero *)
(* backrefs.                                                               *)
(***************************************************************************)
ZeroBackrefs(d) ==
  {i \in 1..Len(d) :
     d[i].kind \in {"target", "substitution_definition"} /\ d[i].backrefs = <<>>}

Unresolved(d) == {i \in 1..Len(d) : IsDangling(d[i])}

DanglingInfoForZeroBackrefs ==
  "DanglingReferences" \in Range(applied) =>
    Len(messages["DanglingReferences"])
      = Cardinality(Unresolved(doc)) + Cardinality(ZeroBackrefs(doc))

(***************************************************************************)
(* C11 as amended: DanglingReferences reports at INFO level only (never    *)
(* WARNING or ERROR), one diagnostic for every reference, footnote         *)
(* reference and citation reference that is still unresolved and one for   *)
(* every target or substitution definition that nothing refers to, and it  *)
(* leaves the problematic nodes of the tree as they are.                   *)
(***************************************************************************)
ProblematicOf(d) == {i \in 1..Len(d) : d[i].kind = "problematic"}

Unreferred(d) == {i \in 1..Len(d) : IsUnreferenced(d, i)}

DanglingReportsInfo ==
  [][JustApplied("DanglingReferences") =>
       /\ Len(doc') = Len(doc)
       /\ ProblematicOf(doc') = ProblematicOf(doc)
       /\ \A k \in 1..Len(messages'["DanglingReferences"]) :
            messages'["DanglingReferences"][k].level = "INFO"
       /\ Len(messages'["DanglingReferences"])
            = Cardinality(Unresolved(doc)) + Cardinality(Unreferred(doc))
       /\ \A i \in Unresolved(doc) :
            \E k \in 1..Len(messages'["DanglingReferences"]) :
              /\ messages'["DanglingReferences"][k].message = "dangling reference"
              /\ messages'["DanglingReferences"][k].about = doc[i].refname]_vars

\* DanglingReferences is applied to a tree with a problematic node, an
\* unresolved reference and citation or footnote reference, and a target
\* that is referred to and has no backref
DanglingReportsInfoWitness ==
  /\ "DanglingReferences" \in Range(applied)
  /\ ProblematicOf(doc) # {}
  /\ Unresolved(doc) # {}
  /\ Len(messages["DanglingReferences"]) >= 2
  /\ ZeroBackrefs(doc) # Unreferred(doc)

(***************************************************************************)
(* C12 as claimed: a substitution reference that has no definition, left   *)
(* in place by Substitutions, is flagged with an ERROR diagnostic by       *)
(* DanglingReferences.                                                     *)
(***************************************************************************)
UndefinedFlaggedError ==
  "DanglingReferences" \in Range(applied) =>
    \A i \in 1..Len(doc) :
      doc[i].kind = "substitution_reference" =>
        \E k \in 1..Len(messages["DanglingReferences"]) :
          /\ messages["DanglingReferences"][k].level = "ERROR"
          /\ messages["DanglingReferences"][k].about = doc[i].refname

(***************************************************************************)
(* C12 as amended: Substitutions replaces every substitution reference     *)
(* whose name matches a substitution definition with a copy of that        *)
(* definition's children and leaves the definitions as they are; a         *)
(* reference whose name has no definition stays in place, unresolved, and  *)
(* the pass emits no diagnostic; DanglingReferences, which reports at INFO *)
(* level only, emits no ERROR for it.                                      *)
(***************************************************************************)
\* the nodes of d that satisfy keep, in document order
Kept(d, keep(_)) ==
  LET at == Ascending({i \in 1..Len(d) : keep(d[i])})
  IN [k \in 1..Len(at) |-> d[at[k]]]

IsDefinition(n) == n.kind = "substitution_definition"
IsSubstitutionRef(n) == n.kind = "substitution_reference"
IsCopy(n) == n.kind = "image" /\ n.level = 1

\* the definitions of d that are named nm
Defining(d, nm) == {j \in 1..Len(d) : IsDefinition(d[j]) /\ nm \in Range(d[j].names)}

SubstitutionsPost(d, e) ==
  LET Defined(n) == IsSubstitutionRef(n) /\ Defining(d, n.refname) # {}
      Undefined(n) == IsSubstitutionRef(n) /\ Defining(d, n.refname) = {}
      Other(n) == ~IsSubstitutionRef(n) /\ ~IsCopy(n)
  IN /\ Kept(e, IsDefinition) = Kept(d, IsDefinition)
     /\ Kept(e, IsSubstitutionRef) = Kept(d, Undefined)
     /\ Kept(e, Other) = Kept(d, Other)
     /\ Len(Kept(e, IsCopy)) = Len(Kept(d, IsCopy)) + Len(Kept(d, Defined))
     /\ Len(e) = Len(d)
     /\ \A i \in 1..Len(d) :
          Defined(d[i]) =>
            \E j \in Defining(d, d[i].refname) :
              e[i] = [d[j].content[1] EXCEPT !.level = d[i].level]

SubstitutionsReplace ==
  [][/\ JustApplied("Substitutions") =>
          /\ SubstitutionsPost(doc, doc')
          /\ messages'["Substitutions"] = <<>>
     /\ JustApplied("DanglingReferences") =>
          \A k \in 1..Len(messages'["DanglingReferences"]) :
            messages'["DanglingReferences"][k].level # "ERROR"]_vars

\* the pipeline is through, on a tree in which one substitution reference
\* was replaced by the copy of an image and another, undefined, is left
SubstitutionsReplaceWitness ==
  /\ "DanglingReferences" \in Range(applied)
  /\ \E i \in 1..Len(doc) : IsCopy(doc[i])
  /\ \E i \in 1..Len(doc) : IsSubstitutionRef(doc[i])
  /\ \E i \in 1..Len(doc) : IsDefinition(doc[i]) /\ doc[i].content # <<>>

(***************************************************************************)
(* C13: a PEP role whose content is a number from 0 to 9999, and an RFC     *)
(* role whose content is a number from 1 on (a "#fragment" may follow it),  *)
(* give one reference and no system message: its text is "PEP " or "RFC "   *)
(* and the number, without the fragment, and its refuri is the PEP base and *)
(* the number in four digits, or the RFC base, the number, ".html" and the  *)
(* fragment.  Any other content gives exactly one ERROR system message and  *)
(* one problematic node, whose text is the markup as written, role and      *)
(* backquotes included, and no reference.                                   *)
(***************************************************************************)
IsPepRfc(it) ==
  it.item = "interpreted" /\ it.suffix = "" /\ it.prefix \in {"PEP", "RFC"}

\* where the number of a content ends: before its first "#", or at its end
NumberEnd(c) ==
  CHOOSE i \in 0..Len(c) :
    /\ \A j \in 1..i : c[j] # "#"
    /\ i = Len(c) \/ c[i + 1] = "#"

NumberIn(it) ==
  IF it.prefix = "PEP" THEN it.content
  ELSE SubSeq(it.content, 1, NumberEnd(it.content))

FragmentIn(it) ==
  IF it.prefix = "PEP" THEN <<>>
  ELSE SubSeq(it.content, NumberEnd(it.content) + 2, Len(it.content))

InRange(it) ==
  /\ IsInteger(NumberIn(it))
  /\ IF it.prefix = "PEP"
     THEN ToInteger(NumberIn(it)) \in 0..9999
     ELSE ToInteger(NumberIn(it)) >= 1

Denotes(t, n) == IsInteger(t) /\ ToInteger(t) = n

PepReference(node, n) ==
  /\ node.kind = "reference"
  /\ Len(node.text) >= 2
  /\ node.text[1] = "PEP "
  /\ Denotes(Tail(node.text), n)
  /\ Len(node.refuri) = 5
  /\ node.refuri[1] = "http://www.python.org/dev/peps/pep-"
  /\ \A k \in 2..5 : IsDigit(node.refuri[k])
  /\ ToNatural(Tail(node.refuri)) = n

RfcReference(node, n, section) ==
  LET h == IndexOf(node.refuri, ".html")
  IN /\ node.kind = "reference"
     /\ Len(node.text) >= 2
     /\ node.text[1] = "RFC "
     /\ Denotes(Tail(node.text), n)
     /\ "#" \notin Range(node.text)
     /\ h > 2
     /\ node.refuri[1] = "http://tools.ietf.org/html/rfc"
     /\ node.refuri[2] # "0"
     /\ Denotes(SubSeq(node.refuri, 2, h - 1), n)
     /\ SubSeq(node.refuri, h + 1, Len(node.refuri))
          = IF section = <<>> THEN <<>> ELSE <<"#">> \o section

AsWritten(it) ==
  (IF it.prefix = "" THEN <<>> ELSE <<":", it.prefix, ":">>)
    \o <<BackQuote>> \o it.content \o <<BackQuote>>
    \o (IF it.suffix = "" THEN <<>> ELSE <<":", it.suffix, ":">>)

PepRfcReferences ==
  \A k \in 1..Len(out) :
    IsPepRfc(items[k]) =>
      IF InRange(items[k])
      THEN /\ out[k].messages = <<>>
           /\ Len(out[k].nodes) = 1
           /\ IF items[k].prefix = "PEP"
              THEN PepReference(out[k].nodes[1], ToInteger(NumberIn(items[k])))
              ELSE RfcReference(out[k].nodes[1], ToInteger(NumberIn(items[k])),
                                FragmentIn(items[k]))
      ELSE /\ Len(out[k].messages) = 1
           /\ out[k].messages[1].level = "ERROR"
           /\ Len(out[k].nodes) = 1
           /\ out[k].nodes[1].kind = "problematic"
           /\ out[k].nodes[1].text = AsWritten(items[k])

\* an RFC reference with a fragment, and a PEP number out of range, are met
PepRfcReferencesWitness ==
  /\ Len(out) = 1
  /\ IsPepRfc(items[1])
  /\ \/ /\ items[1].content = <<"1", "9", "#", "1">>
        /\ items[1].prefix = "RFC"
        /\ out[1].nodes[1].kind = "reference"
     \/ /\ items[1].content = <<"1", "0", "0", "0", "0">>
        /\ items[1].prefix = "PEP"
        /\ out[1].nodes[1].kind = "problematic"

(***************************************************************************)
(* C14: the role of an interpreted text is looked up among the roles that   *)
(* role directives registered earlier in the document, then in the          *)
(* canonical set.  A role found in neither gives an INFO system message     *)
(* without ids or backrefs, then an ERROR ("unknown role") system message,  *)
(* and one problematic node with the whole text as written: its refid is    *)
(* the id of the ERROR, whose backrefs are the id of the node.  This holds  *)
(* with the role before the text and with the role after it, and every     *)
(* item is interpreted, also after an unknown role: a registered role gives *)
(* the literal of its base role, and title and code what they give.         *)
(***************************************************************************)
HasOneRole(it) ==
  it.item = "interpreted" /\ (it.prefix = "") # (it.suffix = "")

RoleName(it) == IF it.prefix # "" THEN it.prefix ELSE it.suffix

RegisteredBefore(k, r) ==
  \E j \in 1..(k - 1) : items[j].item = "role" /\ items[j].name = r

CanonicalSet ==
  {"title", "title-reference", "code", "pep", "pep-reference", "rfc",
   "rfc-reference", "emphasis", "strong", "literal", "PEP", "RFC",
   "restructuredtext-unimplemented-role"}

IsUnknownRole(k) ==
  /\ HasOneRole(items[k])
  /\ ~RegisteredBefore(k, RoleName(items[k]))
  /\ RoleName(items[k]) \notin CanonicalSet

UnknownRoleReported(k) ==
  /\ Len(out[k].messages) = 2
  /\ out[k].messages[1].level = "INFO"
  /\ out[k].messages[1].ids = <<>>
  /\ out[k].messages[1].backrefs = <<>>
  /\ out[k].messages[2].level = "ERROR"
  /\ out[k].messages[2].message = "Unknown interpreted text role"
  /\ Len(out[k].messages[2].ids) = 1
  /\ Len(out[k].nodes) = 1
  /\ out[k].nodes[1].kind = "problematic"
  /\ out[k].nodes[1].text = AsWritten(items[k])
  /\ Len(out[k].nodes[1].ids) = 1
  /\ out[k].nodes[1].refid = out[k].messages[2].ids[1]
  /\ out[k].messages[2].backrefs = out[k].nodes[1].ids
  /\ out[k].nodes[1].ids[1] # out[k].messages[2].ids[1]

UnknownRoleLookup ==
  /\ Len(out) = pos
  /\ \A k \in 1..Len(out) :
       /\ IsUnknownRole(k) => UnknownRoleReported(k)
       /\ HasOneRole(items[k]) /\ RegisteredBefore(k, RoleName(items[k])) =>
            /\ out[k].messages = <<>>
            /\ out[k].nodes[1].kind = "literal"
       /\ HasOneRole(items[k]) /\ ~RegisteredBefore(k, RoleName(items[k]))
            /\ RoleName(items[k]) \in {"title", "code"} =>
            /\ out[k].messages = <<>>
            /\ out[k].nodes[1].kind
                 = IF RoleName(items[k]) = "title" THEN "title_reference"
                   ELSE "literal"

\* an unknown role after the text, after a role directive, and an item
\* interpreted after it
UnknownRoleLookupWitness ==
  /\ Len(out) = 3
  /\ items[1].item = "role"
  /\ IsUnknownRole(2)
  /\ items[2].suffix = "role"
  /\ out[2].nodes[1].kind = "problematic"
  /\ items[3].prefix = "python"
  /\ out[3].nodes[1].kind = "literal"

(***************************************************************************)
(* C15 as stated: the literal of a role registered over code has the        *)
(* role's own declared classes before the class code of the base role.      *)
(***************************************************************************)
UsesCodeRole(k) ==
  /\ HasOneRole(items[k])
  /\ RegisteredBefore(k, RoleName(items[k]))

DirectiveOf(k) ==
  items[CHOOSE j \in 1..(k - 1) :
          /\ items[j].item = "role"
          /\ items[j].name = RoleName(items[k])
          /\ \A i \in (j + 1)..(k - 1) :
               ~(items[i].item = "role" /\ items[i].name = RoleName(items[k]))]

OwnClassesPrepended ==
  \A k \in 1..Len(out) :
    UsesCodeRole(k) =>
      \A c \in Range(DirectiveOf(k).classes) :
        /\ c \in Range(out[k].nodes[1].classes)
        /\ "code" \in Range(out[k].nodes[1].classes)
        /\ IndexOf(out[k].nodes[1].classes, c)
             < IndexOf(out[k].nodes[1].classes, "code")

(***************************************************************************)
(* C15: a role registered by a role directive over code applies to every    *)
(* later interpreted text with its name: each gives one literal and no      *)
(* system message, tokenized as code of the role's language is, whose       *)
(* classes are the class code of the base role first, and then the role's   *)
(* own declared classes, in their order.                                    *)
(***************************************************************************)
RECURSIVE Joined(_)
Joined(tokens) ==
  IF tokens = <<>> THEN <<>> ELSE Head(tokens).text \o Joined(Tail(tokens))

TokenizedAsCode(node, language, content) ==
  /\ Joined(node.children) = content
  /\ \A t \in 1..Len(node.children) :
       IF language = "" THEN node.children[t].classes = <<>>
       ELSE /\ Len(node.children[t].classes) = 1
            /\ Len(node.children[t].text) = 1

CustomCodeRole ==
  \A k \in 1..Len(out) :
    UsesCodeRole(k) =>
      LET own == DirectiveOf(k).classes
          node == out[k].nodes[1]
      IN /\ out[k].messages = <<>>
         /\ Len(out[k].nodes) = 1
         /\ node.kind = "literal"
         /\ TokenizedAsCode(node, DirectiveOf(k).language, items[k].content)
         /\ Len(node.classes) >= 1 + Len(own)
         /\ node.classes[1] = "code"
         /\ SubSeq(node.classes, 2, 1 + Len(own)) = own

\* the role python, with the class testclass, used twice after its directive
CustomCodeRoleWitness ==
  /\ Len(out) = 3
  /\ items[1].item = "role"
  /\ items[1].classes = <<"testclass">>
  /\ UsesCodeRole(2)
  /\ UsesCodeRole(3)
  /\ items[2].prefix = "python"
  /\ items[3].suffix = "python"
  /\ out[3].nodes[1].classes = <<"code", "testclass", "python">>

(***************************************************************************)
(* C16: each call of activate starts exactly one language client, over      *)
(* stdio, with the value of rst_lsp.executable at the call as its command   *)
(* (also when it is undefined), the arguments ["-vv"] and a document        *)
(* selector of the language restructuredtext with the scheme file, and      *)
(* pushes exactly one disposable, the one of that client, onto the          *)
(* subscriptions; no client over TCP is ever started.                       *)
(***************************************************************************)
ActivateStartsOneClient ==
  [][(clients' # clients \/ subscriptions' # subscriptions) =>
       /\ Len(clients') = Len(clients) + 1
       /\ SubSeq(clients', 1, Len(clients)) = clients
       /\ clients'[Len(clients')].transport = "stdio"
       /\ clients'[Len(clients')].command = executable
       /\ clients'[Len(clients')].args = <<"-vv">>
       /\ clients'[Len(clients')].documentSelector
            = <<[language |-> "restructuredtext", scheme |-> "file"]>>
       /\ Len(subscriptions') = Len(subscriptions) + 1
       /\ SubSeq(subscriptions', 1, Len(subscriptions)) = subscriptions
       /\ subscriptions'[Len(subscriptions')].stops = Len(clients')
       /\ \A k \in 1..Len(clients') : clients'[k].transport # "tcp"]_vars

\* two calls, the first with the setting undefined and the second after it
\* was set
ActivateStartsOneClientWitness ==
  /\ Len(clients) = 2
  /\ Len(subscriptions) = 2
  /\ clients[1].command = "undefined"
  /\ clients[2].command = "rst-lsp-serve"

=============================================================================
